---- MODULE Spec2Model ----
(***************************************************************************)
(* Hostel Dada: a menu-driven console program (src/main.cpp) dispatching   *)
(* to independent modules.  main() runs one module's run() to completion   *)
(* and the modules share no data, so each module is checked under its own  *)
(* specification: the other modules' variables stay at their seed values.  *)
(*                                                                         *)
(*   SnackCart     (StockRanker)       SpecSnack                           *)
(*   LaundryLoad   (IntervalBooker)    SpecLaundry                         *)
(*   RoomieMatcher (BipartiteAssigner) SpecRoomie                          *)
(*   HostelFixer   (TaskPrioritizer)   SpecFixer                           *)
(*   HostelFixer   (PathFinder)        SpecPath                            *)
(*   FoodFight     (WindowCounter)     SpecFood                            *)
(***************************************************************************)
EXTENDS Integers, Sequences, FiniteSets, TLC

VARIABLES
    running,        \* the process is alive (FALSE once an overflow trap aborts it)
    \* ---- SnackCart.cpp
    stock,          \* std::unordered_map<std::string, Snack> stock
    salesHistory,   \* std::vector<std::pair<std::string,int>> salesHistory
    snackOut,       \* what the last SnackCart menu option printed
    \* ---- LaundryLoad.cpp
    slots,          \* std::vector<std::pair<int,int>> slots
    start,          \* int start  (read from std::cin)
    end,            \* int end    (read from std::cin)
    laundryOut,     \* "Slot booked!" / "Clash detected!"
    \* ---- RoomieMatcher.cpp
    preferences,    \* student -> ordered list of rooms
    matches,        \* std::unordered_map room -> student
    roomiePc,       \* 0: not in run(); k in 1..4: about to call bfsMatch(students[k]); 5: printed
    roomieRuns,     \* how many times run() has been entered
    roomieOut,      \* the printed "Room Assignments" (room -> student or "[Unassigned]")
    \* ---- HostelFixer.cpp
    tasks,          \* the priority_queue's underlying vector (a binary heap)
    pushed,         \* the tasks pushed so far, in the order of the tasks.push calls
    listed,         \* the "Urgent Tasks" lines printed by the last run
    graph,          \* node -> list of <<neighbour, weight>>
    dist,           \* std::map<std::string,int> dist
    pq,             \* the Dijkstra priority queue, a set of <<distance, node>>
    fixerPc,        \* "idle" | "dijkstra" | "done"
    shortest,       \* the printed dist[dest]
    iters,          \* iterations of the while (!pq.empty()) loop in this run
    \* ---- FoodFight.cpp
    entryTimes,     \* std::vector<int> entryTimes
    window,         \* int window
    prefix,         \* std::vector<int> prefix
    foodPc,         \* "idle" | "report" | "min" | "done"
    fi,             \* the loop variable i of the loop foodPc names
    windowsOut,     \* the printed window lines <<from, to, cnt>>
    bestTime,       \* int bestTime
    minQueue        \* int minQueue

snackVars == <<stock, salesHistory, snackOut>>
laundryVars == <<slots, start, end, laundryOut>>
roomieVars == <<preferences, matches, roomiePc, roomieRuns, roomieOut>>
fixerVars == <<tasks, pushed, listed, graph, dist, pq, fixerPc, shortest, iters>>
foodVars == <<entryTimes, window, prefix, foodPc, fi, windowsOut, bestTime, minQueue>>
vars == <<running, snackVars, laundryVars, roomieVars, fixerVars, foodVars>>

\* a module's run() touches no other module's data
SnackFrame == UNCHANGED <<laundryVars, roomieVars, fixerVars, foodVars>>
LaundryFrame == UNCHANGED <<snackVars, roomieVars, fixerVars, foodVars>>
RoomieFrame == UNCHANGED <<snackVars, laundryVars, fixerVars, foodVars>>
FixerFrame == UNCHANGED <<snackVars, laundryVars, roomieVars, foodVars>>
FoodFrame == UNCHANGED <<snackVars, laundryVars, roomieVars, fixerVars>>

(***************************************************************************)
(* C++ int: 32-bit two's complement.  TLC's own integers are 32 bits and   *)
(* stop on overflow, so wrapped results are computed on 16-bit halves.     *)
(* Signed overflow is undefined behaviour; the builds of this program      *)
(* either wrap (the default code generation) or trap (-ftrapv), and the    *)
(* actions below allow both.                                               *)
(***************************************************************************)
MaxInt == 2147483647
MinInt == -MaxInt - 1
Half == 2^16

Hi(x) == (x \div Half) % Half
Lo(x) == x % Half
FromHalves(h, l) ==
    IF h >= Half \div 2 THEN (h - Half) * Half + l ELSE h * Half + l

Add32(a, b) ==
    LET l == Lo(a) + Lo(b)
        h == Hi(a) + Hi(b) + (l \div Half)
    IN  FromHalves(h % Half, l % Half)

Sub32(a, b) ==
    LET l == Lo(a) - Lo(b)
        h == Hi(a) - Hi(b) + (l \div Half)
    IN  FromHalves(h % Half, l % Half)

RECURSIVE MulSmall(_, _)
MulSmall(a, k) ==
    IF k = 0 THEN 0
    ELSE Add32(IF (k % 2) = 1 THEN a ELSE 0, MulSmall(Add32(a, a), k \div 2))

Mul32(a, b) ==
    Add32(MulSmall(a, Lo(b)), FromHalves(Lo(MulSmall(a, Hi(b))), 0))

AddOverflows(a, b) ==
    \/ a >= 0 /\ b >= 0 /\ a > MaxInt - b
    \/ a < 0 /\ b < 0 /\ a < MinInt - b

SubOverflows(a, b) ==
    \/ b < 0 /\ a > MaxInt + b
    \/ b > 0 /\ a < MinInt + b

Abs(x) == IF x < 0 THEN -x ELSE x

MulOverflows(a, b) ==
    IF a = 0 \/ b = 0 \/ a = 1 \/ b = 1 THEN FALSE
    ELSE IF a = MinInt \/ b = MinInt THEN TRUE
    ELSE LET q == MaxInt \div Abs(b)
             r == MaxInt % Abs(b)
         IN  IF (a < 0) = (b < 0)
             THEN Abs(a) > q
             ELSE ~(Abs(a) <= q \/ (Abs(a) = q + 1 /\ r = Abs(b) - 1))

(***************************************************************************)
(* SnackCart                                                               *)
(***************************************************************************)
MaxSales == 2

\* "2025-09-01" etc. as the characters' codes: std::string's operator> is
\* the lexicographic comparison of the characters.
Date(y, m, d) ==
    <<48 + ((y \div 1000) % 10), 48 + ((y \div 100) % 10), 48 + ((y \div 10) % 10),
      48 + (y % 10), 45, 48 + (m \div 10), 48 + (m % 10), 45,
      48 + (d \div 10), 48 + (d % 10)>>

SeedStock ==
    [n \in {"Kurkure", "Lays", "Oreo"} |->
        CASE n = "Kurkure" -> [name |-> "Kurkure", quantity |-> 10, price |-> 15,
                               expiry |-> Date(2025, 9, 1)]
          [] n = "Lays"    -> [name |-> "Lays", quantity |-> 5, price |-> 20,
                               expiry |-> Date(2025, 8, 10)]
          [] n = "Oreo"    -> [name |-> "Oreo", quantity |-> 8, price |-> 25,
                               expiry |-> Date(2025, 10, 5)]]

\* the names and quantities typed at the prompts
NameInputs == {"Kurkure", "Lays", "Oreo", "Maggi"}
QtyInputs == {-MaxInt, -1, 0, 1, 3, 11}

RECURSIVE StrGreater(_, _)
StrGreater(a, b) ==
    IF a = <<>> THEN FALSE
    ELSE IF b = <<>> THEN TRUE
    ELSE IF Head(a) # Head(b) THEN Head(a) > Head(b)
    ELSE StrGreater(Tail(a), Tail(b))

ExpiryCompare(a, b) == StrGreater(a.expiry, b.expiry)

\* The order in which the priority_queue ordered by ExpiryCompare pops the
\* snacks: top() is an element no other element precedes, i.e. one with the
\* least expiry (the seed's expiry strings are pairwise different).
RECURSIVE PopAll(_)
PopAll(S) ==
    IF S = {} THEN <<>>
    ELSE LET s == CHOOSE x \in S : \A y \in S : ~ExpiryCompare(x, y)
         IN  <<s>> \o PopAll(S \ {s})

NoSnackOut == [op |-> "none", lines |-> <<>>, total |-> 0]

ViewStock ==
    /\ SnackFrame
    /\ running
    /\ snackOut' = [op |-> "stock",
                    lines |-> PopAll({stock[n] : n \in DOMAIN stock}),
                    total |-> 0]
    /\ UNCHANGED <<running, stock, salesHistory>>

\* if (stock.count(name) && stock[name].quantity >= qty)
InStock(name, qty) == name \in DOMAIN stock /\ stock[name].quantity >= qty

BuySnack(name, qty) ==
    /\ SnackFrame
    /\ running
    /\ Len(salesHistory) < MaxSales
    /\ IF InStock(name, qty)
       THEN \/ /\ stock' = [stock EXCEPT ![name].quantity = Sub32(@, qty)]
               /\ salesHistory' =
                      Append(salesHistory, <<name, Mul32(qty, stock[name].price)>>)
               /\ snackOut' = [op |-> "purchased", lines |-> <<>>, total |-> 0]
               /\ UNCHANGED running
            \/ /\ \/ SubOverflows(stock[name].quantity, qty)
                  \/ MulOverflows(qty, stock[name].price)
               /\ running' = FALSE
               /\ UNCHANGED <<stock, salesHistory, snackOut>>
       ELSE /\ snackOut' = [op |-> "rejected", lines |-> <<>>, total |-> 0]
            /\ UNCHANGED <<running, stock, salesHistory>>

\* std::sort with [](auto& a, auto& b){ return a.second > b.second; }: the
\* result is a permutation in which no later element has the greater profit;
\* std::sort is not stable, so equal profits may come out in either order.
IndexPerms(s) ==
    {p \in [1..Len(s) -> 1..Len(s)] : \A i, j \in 1..Len(s) : i # j => p[i] # p[j]}

SortedByProfit(s) ==
    {[i \in 1..Len(s) |-> s[p[i]]] : p \in
        {q \in IndexPerms(s) :
            \A i, j \in 1..Len(s) : i < j => ~(s[q[j]][2] > s[q[i]][2])}}

RECURSIVE Total(_)
Total(s) == IF s = <<>> THEN 0 ELSE Add32(Total(SubSeq(s, 1, Len(s) - 1)), s[Len(s)][2])

RECURSIVE TotalOverflows(_)
TotalOverflows(s) ==
    IF s = <<>> THEN FALSE
    ELSE \/ TotalOverflows(SubSeq(s, 1, Len(s) - 1))
         \/ AddOverflows(Total(SubSeq(s, 1, Len(s) - 1)), s[Len(s)][2])

ViewProfit ==
    /\ SnackFrame
    /\ running
    /\ \E sorted \in SortedByProfit(salesHistory) :
          \/ /\ salesHistory' = sorted
             /\ snackOut' = [op |-> "profit", lines |-> sorted, total |-> Total(sorted)]
             /\ UNCHANGED <<running, stock>>
          \/ /\ TotalOverflows(sorted)
             /\ salesHistory' = sorted
             /\ running' = FALSE
             /\ UNCHANGED <<stock, snackOut>>

(***************************************************************************)
(* LaundryLoad                                                             *)
(***************************************************************************)
MaxSlots == 5

SeedSlots == <<<<9, 10>>, <<10, 11>>, <<11, 12>>>>

\* the hours typed at the prompts
HourInputs == 8..14

\* the loop left after its first iteration, clash or not
ClashFirstOnly(st, en, ss) ==
    ss # <<>> /\ ~(en <= ss[1][1] \/ st >= ss[1][2])

\* for (auto& s : slots) if (!(end <= s.first || start >= s.second)) { clash = true; break; }

Clash(st, en, ss) ==
    \E k \in 1..Len(ss) : ~(en <= ss[k][1] \/ st >= ss[k][2])

Book(st, en) ==
    /\ LaundryFrame
    /\ running
    /\ Len(slots) < MaxSlots
    /\ start' = st
    /\ end' = en
    /\ IF ~Clash(st, en, slots)
       THEN /\ slots' = Append(slots, <<st, en>>)
            /\ laundryOut' = "booked"
       ELSE /\ slots' = slots
            /\ laundryOut' = "clash"
    /\ UNCHANGED running

(***************************************************************************)
(* RoomieMatcher                                                           *)
(***************************************************************************)
MaxPrefLen == 2
MaxRuns == 2

students == <<"Alice", "Bob", "Charlie", "Daisy">>
rooms == <<"A1", "A2">>

Range(s) == {s[k] : k \in 1..Len(s)}

SeedPreferences ==
    [s \in Range(students) |->
        CASE s = "Alice"   -> <<"A1">>
          [] s = "Bob"     -> <<"A2">>
          [] s = "Charlie" -> <<"A1", "A2">>
          [] s = "Daisy"   -> <<"A2">>]

\* every preference table over the seed's students and rooms
PrefLists == UNION {[1..n -> Range(rooms)] : n \in 0..MaxPrefLen}
PreferenceTables == [Range(students) -> PrefLists]

NoMatches == [r \in {} |-> ""]

Put(m, k, v) == [x \in DOMAIN m \cup {k} |-> IF x = k THEN v ELSE m[x]]

\* bfsMatch with the "return true" lost: the scan goes on after a match
RECURSIVE bfsMatchNoReturn(_, _, _)
bfsMatchNoReturn(prefs, student, m) ==
    IF prefs = <<>> THEN m
    ELSE IF Head(prefs) \notin DOMAIN m
         THEN bfsMatchNoReturn(Tail(prefs), student, Put(m, Head(prefs), student))
         ELSE bfsMatchNoReturn(Tail(prefs), student, m)

\* bfsMatch(student): the value of matches after the call, from m before it;
\* prefs is what is left to scan of preferences[student]
RECURSIVE bfsMatch(_, _, _)
bfsMatch(prefs, student, m) ==
    IF prefs = <<>> THEN m
    ELSE IF Head(prefs) \notin DOMAIN m
         THEN Put(m, Head(prefs), student)
         ELSE bfsMatch(Tail(prefs), student, m)

\* run(): matches.clear()
RoomieStart ==
    /\ RoomieFrame
    /\ running
    /\ roomiePc = 0
    /\ roomieRuns < MaxRuns
    /\ matches' = NoMatches
    /\ roomiePc' = 1
    /\ roomieRuns' = roomieRuns + 1
    /\ UNCHANGED <<running, preferences, roomieOut>>

\* run(): one iteration of for (const auto& student : students) bfsMatch(student)
RoomieMatch ==
    /\ RoomieFrame
    /\ roomiePc \in 1..Len(students)
    /\ matches' = bfsMatch(preferences[students[roomiePc]], students[roomiePc], matches)
    /\ roomiePc' = roomiePc + 1
    /\ UNCHANGED <<running, preferences, roomieRuns, roomieOut>>

\* run(): the "Room Assignments" loop, and the return
RoomiePrint ==
    /\ RoomieFrame
    /\ roomiePc = Len(students) + 1
    /\ roomieOut' = [r \in Range(rooms) |->
                        IF r \in DOMAIN matches THEN matches[r] ELSE "[Unassigned]"]
    /\ roomiePc' = 0
    /\ UNCHANGED <<running, preferences, matches, roomieRuns>>

(***************************************************************************)
(* HostelFixer: the task queue                                             *)
(*                                                                         *)
(* std::priority_queue<Task, std::vector<Task>, std::greater<Task>> keeps  *)
(* its vector a binary heap: push is push_back + std::push_heap, pop is    *)
(* std::pop_heap + pop_back, top is the vector's front.  The heap          *)
(* operations are those of the standard library the program is built with  *)
(* (libstdc++'s __push_heap and __adjust_heap), on 0-based indices.        *)
(***************************************************************************)
MaxTasks == 3

DescInputs == {"fan", "tap"}
UrgencyInputs == {1, 3, 5}

\* the comparison turned around: urgency < other.urgency
TaskLess(a, b) == a.urgency < b.urgency

\* bool Task::operator>(const Task& other) const, used through std::greater<Task>
TaskGreater(a, b) == a.urgency > b.urgency

At(h, k) == h[k + 1]
Set(h, k, v) == [h EXCEPT ![k + 1] = v]

\* __push_heap(first, holeIndex, topIndex, value)
RECURSIVE SiftUp(_, _, _, _)
SiftUp(h, hole, top, value) ==
    LET parent == (hole - 1) \div 2
    IN  IF hole > top /\ TaskGreater(At(h, parent), value)
        THEN SiftUp(Set(h, hole, At(h, parent)), parent, top, value)
        ELSE Set(h, hole, value)

\* tasks.push(t)
PushHeap(h, t) == SiftUp(Append(h, t), Len(h), 0, t)

\* __adjust_heap's while loop: returns <<heap, holeIndex, secondChild>>
RECURSIVE SiftDown(_, _, _, _)
SiftDown(h, hole, child, len) ==
    IF child < (len - 1) \div 2
    THEN LET c == 2 * (child + 1)
             pick == IF TaskGreater(At(h, c), At(h, c - 1)) THEN c - 1 ELSE c
         IN  SiftDown(Set(h, hole, At(h, pick)), pick, pick, len)
    ELSE <<h, hole, child>>

\* __adjust_heap(first, 0, len, value)
AdjustHeap(h, len, value) ==
    LET r == SiftDown(h, 0, 0, len)
        h1 == r[1]
        hole1 == r[2]
        child1 == r[3]
        lone == (len % 2 = 0) /\ child1 = (len - 2) \div 2
        c == 2 * (child1 + 1)
        h2 == IF lone THEN Set(h1, hole1, At(h1, c - 1)) ELSE h1
        hole2 == IF lone THEN c - 1 ELSE hole1
    IN  SiftUp(h2, hole2, 0, value)

\* temp.pop(): std::pop_heap (a no-op on one element), then pop_back
PopHeap(h) ==
    IF Len(h) <= 1 THEN <<>>
    ELSE LET len == Len(h) - 1
         IN  AdjustHeap(SubSeq(h, 1, len), len, h[Len(h)])

\* auto temp = tasks; while (!temp.empty()) { auto t = temp.top(); temp.pop(); print t }
RECURSIVE PopOrder(_)
PopOrder(h) == IF h = <<>> THEN <<>> ELSE <<h[1]>> \o PopOrder(PopHeap(h))

(***************************************************************************)
(* HostelFixer: the shortest path                                          *)
(***************************************************************************)
MaxW == 2
Inf == 1000000000

Nodes == {"Gate", "Laundry", "Mess"}
NodeSeq == <<"Gate", "Mess", "Laundry">>
src == "Gate"
dest == "Laundry"

SeedGraph ==
    [u \in Nodes |->
        CASE u = "Gate"    -> <<<<"Mess", 2>>, <<"Laundry", 4>>>>
          [] u = "Mess"    -> <<<<"Gate", 2>>, <<"Laundry", 1>>>>
          [] u = "Laundry" -> <<<<"Gate", 4>>, <<"Mess", 1>>>>]

\* every directed graph on the seed's nodes with weights 0..MaxW (-1: no edge)
EdgePairs == {e \in Nodes \X Nodes : e[1] # e[2]}
GraphOf(wt) ==
    [u \in Nodes |->
        LET Has(v) == v # u /\ wt[<<u, v>>] >= 0
            vs == SelectSeq(NodeSeq, Has)
        IN  [k \in 1..Len(vs) |-> <<vs[k], wt[<<u, vs[k]>>]>>]]
Graphs == {SeedGraph} \cup {GraphOf(wt) : wt \in [EdgePairs -> -1..MaxW]}

\* std::string's operator< on the node names, as std::greater<> on
\* std::pair<int, std::string> uses it to break ties of the distance
NameRank(n) == CASE n = "Gate" -> 1 [] n = "Laundry" -> 2 [] n = "Mess" -> 3
PairLess(a, b) == a[1] < b[1] \/ (a[1] = b[1] /\ NameRank(a[2]) < NameRank(b[2]))

\* pq.top()
Top(q) == CHOOSE a \in q : \A b \in q : a = b \/ PairLess(a, b)

\* the relaxation with the edge weight alone: dist[v] = w
RECURSIVE RelaxNoBase(_, _, _)
RelaxNoBase(edges, u, dq) ==
    IF edges = <<>> THEN dq
    ELSE LET v == Head(edges)[1]
             w == Head(edges)[2]
             d == dq[1]
         IN  IF d[v] > d[u] + w
             THEN RelaxNoBase(Tail(edges), u,
                      <<[d EXCEPT ![v] = w], dq[2] \cup {<<w, v>>}>>)
             ELSE RelaxNoBase(Tail(edges), u, dq)

\* for (auto& [v, w] : graph[u]) if (dist[v] > dist[u] + w) { dist[v] = dist[u] + w; pq.push({dist[v], v}); }
\* dq is <<dist, pq>>
RECURSIVE Relax(_, _, _)
Relax(edges, u, dq) ==
    IF edges = <<>> THEN dq
    ELSE LET v == Head(edges)[1]
             w == Head(edges)[2]
             d == dq[1]
         IN  IF d[v] > d[u] + w
             THEN Relax(Tail(edges), u,
                      <<[d EXCEPT ![v] = d[u] + w], dq[2] \cup {<<d[u] + w, v>>}>>)
             ELSE Relax(Tail(edges), u, dq)

\* run() up to the Dijkstra loop: read desc and urg, push, list, set up dist and pq
FixerRun(desc, urg) ==
    /\ FixerFrame
    /\ running
    /\ fixerPc = "idle"
    /\ Len(tasks) < MaxTasks
    /\ LET t == [desc |-> desc, urgency |-> urg]
       IN  /\ tasks' = PushHeap(tasks, t)
           /\ pushed' = Append(pushed, t)
           /\ listed' = PopOrder(PushHeap(tasks, t))
    /\ dist' = [n \in DOMAIN graph |-> IF n = src THEN 0 ELSE Inf]
    /\ pq' = {<<0, src>>}
    /\ iters' = 0
    /\ fixerPc' = "dijkstra"
    /\ UNCHANGED <<running, graph, shortest>>

\* one iteration of while (!pq.empty())
DijkstraStep ==
    /\ FixerFrame
    /\ fixerPc = "dijkstra"
    /\ pq # {}
    /\ LET top == Top(pq)
           d == top[1]
           u == top[2]
           dq == IF d > dist[u] THEN <<dist, pq \ {top}>>
                 ELSE Relax(graph[u], u, <<dist, pq \ {top}>>)
       IN  /\ dist' = dq[1]
           /\ pq' = dq[2]
    /\ iters' = iters + 1
    /\ UNCHANGED <<running, tasks, pushed, listed, graph, fixerPc, shortest>>

\* the loop's exit: print dist[dest], return
DijkstraDone ==
    /\ FixerFrame
    /\ fixerPc = "dijkstra"
    /\ pq = {}
    /\ shortest' = dist[dest]
    /\ fixerPc' = "idle"
    /\ UNCHANGED <<running, tasks, pushed, listed, graph, dist, pq, iters>>

(***************************************************************************)
(* FoodFight                                                               *)
(***************************************************************************)
MaxN == 4
MaxT == 3
MaxWindow == 3

SeedEntryTimes == <<1, 2, 2, 3, 4, 4, 5>>
SeedWindow == 2

\* every non-decreasing sequence of at most MaxN hours in 1..MaxT, and the seed
NonDecreasing(s) == \A k \in 1..(Len(s) - 1) : s[k] <= s[k + 1]
EntryTimeInputs ==
    {SeedEntryTimes} \cup
    {s \in UNION {[1..n -> 1..MaxT] : n \in 0..MaxN} : NonDecreasing(s)}

\* what a read of entryTimes[0] of an empty vector may yield
GarbageInputs == {-1, 0, 7}

\* for (i = 0; i < entryTimes.size(); ++i) prefix[i+1] = prefix[i] + 1;
\* p is prefix (0-based, so prefix[i] is p[i + 1]) with the first k entries final
RECURSIVE FillPrefix(_, _)
FillPrefix(p, k) ==
    IF k >= Len(p) THEN p ELSE FillPrefix([p EXCEPT ![k + 1] = p[k] + 1], k + 1)

\* the count with the window one sample short
CountShort(p, k, w) == p[k + w] - p[k + 1]

\* int cnt = prefix[i+window] - prefix[i];
Count(p, k, w) == p[k + w + 1] - p[k + 1]

\* run() up to the first loop
FoodStart ==
    /\ FoodFrame
    /\ running
    /\ foodPc \in {"idle", "done"}
    /\ prefix' = FillPrefix([k \in 1..(Len(entryTimes) + 1) |-> 0], 1)
    /\ windowsOut' = <<>>
    /\ fi' = 0
    /\ foodPc' = "report"
    /\ UNCHANGED <<running, entryTimes, window, bestTime, minQueue>>

\* the "Queue prediction" loop; at its exit,
\* int bestTime = entryTimes[0], minQueue = entryTimes.size();
FoodReport ==
    /\ FoodFrame
    /\ foodPc = "report"
    /\ IF fi + window <= Len(entryTimes)
       THEN /\ windowsOut' = Append(windowsOut,
                    <<entryTimes[fi + 1], entryTimes[fi + window], Count(prefix, fi, window)>>)
            /\ fi' = fi + 1
            /\ UNCHANGED <<foodPc, bestTime, minQueue>>
       ELSE /\ IF entryTimes # <<>>
               THEN bestTime' = entryTimes[1]
               ELSE bestTime' \in GarbageInputs
            /\ minQueue' = Len(entryTimes)
            /\ fi' = 0
            /\ foodPc' = "min"
            /\ UNCHANGED windowsOut
    /\ UNCHANGED <<running, entryTimes, window, prefix>>

\* the minimum loop; at its exit, print bestTime and minQueue, return
FoodMin ==
    /\ FoodFrame
    /\ foodPc = "min"
    /\ IF fi + window <= Len(entryTimes)
       THEN /\ IF Count(prefix, fi, window) < minQueue
               THEN /\ minQueue' = Count(prefix, fi, window)
                    /\ bestTime' = entryTimes[fi + 1]
               ELSE UNCHANGED <<minQueue, bestTime>>
            /\ fi' = fi + 1
            /\ UNCHANGED foodPc
       ELSE /\ foodPc' = "done"
            /\ UNCHANGED <<fi, minQueue, bestTime>>
    /\ UNCHANGED <<running, entryTimes, window, prefix, windowsOut>>

(***************************************************************************)
(* The state at process start, and the specifications                      *)
(***************************************************************************)
SnackInit ==
    /\ stock = SeedStock
    /\ salesHistory = <<>>
    /\ snackOut = NoSnackOut

LaundryInit ==
    /\ slots = SeedSlots
    /\ start = 0
    /\ end = 0
    /\ laundryOut = "none"

RoomieInit ==
    /\ matches = NoMatches
    /\ roomiePc = 0
    /\ roomieRuns = 0
    /\ roomieOut = [r \in Range(rooms) |-> "[Unassigned]"]

FixerInit ==
    /\ tasks = <<>>
    /\ pushed = <<>>
    /\ listed = <<>>
    /\ dist = [n \in {} |-> 0]
    /\ pq = {}
    /\ fixerPc = "idle"
    /\ shortest = 0
    /\ iters = 0

FoodInit ==
    /\ prefix = <<>>
    /\ foodPc = "idle"
    /\ fi = 0
    /\ windowsOut = <<>>
    /\ bestTime = 0
    /\ minQueue = 0

\* the program as shipped: every table holds its seed
Init ==
    /\ running = TRUE
    /\ SnackInit
    /\ LaundryInit
    /\ RoomieInit /\ preferences = SeedPreferences
    /\ FixerInit /\ graph = SeedGraph
    /\ FoodInit /\ entryTimes = SeedEntryTimes /\ window = SeedWindow

\* the same program over every preference table, graph, or entry-time vector
\* of the bounded families
InitRoomie ==
    /\ running = TRUE
    /\ SnackInit
    /\ LaundryInit
    /\ RoomieInit /\ preferences \in PreferenceTables
    /\ FixerInit /\ graph = SeedGraph
    /\ FoodInit /\ entryTimes = SeedEntryTimes /\ window = SeedWindow

InitPath ==
    /\ running = TRUE
    /\ SnackInit
    /\ LaundryInit
    /\ RoomieInit /\ preferences = SeedPreferences
    /\ FixerInit /\ graph \in Graphs
    /\ FoodInit /\ entryTimes = SeedEntryTimes /\ window = SeedWindow

InitFood ==
    /\ running = TRUE
    /\ SnackInit
    /\ LaundryInit
    /\ RoomieInit /\ preferences = SeedPreferences
    /\ FixerInit /\ graph = SeedGraph
    /\ FoodInit /\ entryTimes \in EntryTimeInputs /\ window \in 1..MaxWindow

NextSnack ==
    \/ ViewStock
    \/ \E name \in NameInputs, qty \in QtyInputs : BuySnack(name, qty)
    \/ ViewProfit

NextLaundry == \E st \in HourInputs, en \in HourInputs : Book(st, en)

NextRoomie ==
    \/ RoomieStart
    \/ RoomieMatch
    \/ RoomiePrint

NextFixer ==
    \/ \E desc \in DescInputs, urg \in UrgencyInputs : FixerRun(desc, urg)
    \/ DijkstraStep
    \/ DijkstraDone

\* one description and urgency: the graph is what varies
NextPath ==
    \/ FixerRun("fan", 1)
    \/ DijkstraStep
    \/ DijkstraDone

NextFood ==
    \/ FoodStart
    \/ FoodReport
    \/ FoodMin

SpecSnack == Init /\ [][NextSnack]_vars
SpecLaundry == Init /\ [][NextLaundry]_vars
SpecRoomie == InitRoomie /\ [][NextRoomie]_vars
SpecFixer == Init /\ [][NextFixer]_vars
SpecPath == InitPath /\ [][NextPath]_vars
SpecFood == InitFood /\ [][NextFood]_vars

(***************************************************************************)
(* SnackCart: C1, C2, C3                                                   *)
(***************************************************************************)
\* q2 = q - n and p = a * b over the integers: a difference or product that
\* does not fit an int is the value of no int
DecreasedBy(q, q2, n) == ~SubOverflows(q, n) /\ q2 = q - n
IsProduct(p, a, b) == ~MulOverflows(a, b) /\ p = a * b

PurchaseContract(name, qty) ==
    IF name \notin DOMAIN stock \/ qty > stock[name].quantity
    THEN /\ snackOut'.op = "rejected"
         /\ stock' = stock
         /\ salesHistory' = salesHistory
    ELSE /\ snackOut'.op = "purchased"
         /\ DOMAIN stock' = DOMAIN stock
         /\ DecreasedBy(stock[name].quantity, stock'[name].quantity, qty)
         /\ stock'[name] = [stock[name] EXCEPT !.quantity = stock'[name].quantity]
         /\ \A other \in DOMAIN stock \ {name} : stock'[other] = stock[other]
         /\ Len(salesHistory') = Len(salesHistory) + 1
         /\ SubSeq(salesHistory', 1, Len(salesHistory)) = salesHistory
         /\ salesHistory'[Len(salesHistory')][1] = name
         /\ IsProduct(salesHistory'[Len(salesHistory')][2], qty, stock[name].price)

\* C1: purchase(name, qty) fails exactly when the name is not in stock or
\* qty > the item's quantity, and then changes nothing; otherwise the item's
\* quantity decreases by exactly qty, no other item changes, and exactly one
\* record (name, qty x unit price) is appended to the sale history.
C1_PurchaseContract ==
    [][\A name \in NameInputs, qty \in QtyInputs :
          BuySnack(name, qty) => PurchaseContract(name, qty)]_vars

\* C2: after any sequence of purchases, with any names and any integer
\* quantities, every item's quantity is >= 0.
C2_QuantityNonNegative == \A n \in DOMAIN stock : stock[n].quantity >= 0

\* C3: View Stock and View Profit leave the stock and the stored sale
\* history as they were; the history changes only by a successful purchase
\* appending one record, so it is the purchases' records in purchase order.
C3_ViewsKeepHistory ==
    [][/\ (ViewStock \/ ViewProfit) => (stock' = stock /\ salesHistory' = salesHistory)
       /\ salesHistory' # salesHistory =>
             /\ snackOut'.op = "purchased"
             /\ Len(salesHistory') = Len(salesHistory) + 1
             /\ SubSeq(salesHistory', 1, Len(salesHistory)) = salesHistory]_vars

(***************************************************************************)
(* LaundryLoad: C4, C5, C10                                                *)
(***************************************************************************)
\* [a,b) and [s,e) overlap when not (b <= s or a >= e)
Overlap(x, y) == ~(x[2] <= y[1] \/ x[1] >= y[2])

\* C4: no two distinct entries of the booked list overlap, in every state
\* reachable from the seed slots by book calls.
C4_NoOverlap ==
    \A i, j \in 1..Len(slots) : i # j => ~Overlap(slots[i], slots[j])

C4_Witness ==
    /\ slots = SeedSlots \o <<<<12, 13>>, <<8, 9>>>>
    /\ laundryOut = "booked"
    /\ <<start, end>> = <<8, 9>>

BookContract(st, en) ==
    IF \E k \in 1..Len(slots) : slots[k] = <<st, en>> \/ Overlap(<<st, en>>, slots[k])
    THEN /\ laundryOut' = "clash"
         /\ slots' = slots
    ELSE /\ laundryOut' = "booked"
         /\ slots' = Append(slots, <<st, en>>)

\* C5: booking an interval identical to or overlapping a booked one fails
\* and leaves the list unchanged; booking an interval disjoint from every
\* booked one succeeds and adds it as the last element.
C5_BookContract ==
    [][\A st \in HourInputs, en \in HourInputs :
          Book(st, en) => BookContract(st, en)]_vars

\* C10: every interval in the booked list has start < end (a call with
\* start >= end is rejected and adds nothing).
C10_StartBeforeEnd == \A k \in 1..Len(slots) : slots[k][1] < slots[k][2]

(***************************************************************************)
(* RoomieMatcher: C6                                                       *)
(***************************************************************************)
RECURSIVE FirstFree(_, _)
FirstFree(prefs, taken) ==
    IF prefs = <<>> THEN "none"
    ELSE IF Head(prefs) \notin taken THEN Head(prefs)
    ELSE FirstFree(Tail(prefs), taken)

\* the room of the i-th student: the first room of the student's list that
\* no earlier student holds
RoomOf[i \in 1..Len(students)] ==
    FirstFree(preferences[students[i]], {RoomOf[j] : j \in 1..(i - 1)})

GreedyMatches ==
    [r \in {RoomOf[i] : i \in 1..Len(students)} \ {"none"} |->
        students[CHOOSE i \in 1..Len(students) : RoomOf[i] = r]]

RoomieReturned == roomiePc = 0 /\ roomieRuns > 0

\* C6: students are processed in seed order, each taking the first room of
\* the preference list that is unoccupied at the student's turn or none; no
\* student holds two rooms (and, matches being a map, no room two students);
\* on the seed the result is A1: Alice, A2: Bob, on every run.
C6_GreedyAssignment ==
    /\ \A r1, r2 \in DOMAIN matches : r1 # r2 => matches[r1] # matches[r2]
    /\ roomiePc \in 1..(Len(students) + 1) =>
          \A r \in DOMAIN matches :
              \E i \in 1..(roomiePc - 1) : students[i] = matches[r] /\ RoomOf[i] = r
    /\ RoomieReturned =>
          /\ matches = GreedyMatches
          /\ \A r \in Range(rooms) :
                roomieOut[r] = IF r \in DOMAIN matches THEN matches[r] ELSE "[Unassigned]"
    /\ RoomieReturned /\ preferences = SeedPreferences =>
          /\ DOMAIN matches = {"A1", "A2"}
          /\ matches["A1"] = "Alice"
          /\ matches["A2"] = "Bob"

C6_Witness ==
    /\ RoomieReturned
    /\ roomieRuns = 2
    /\ preferences = SeedPreferences
    /\ roomieOut["A1"] = "Alice"
    /\ roomieOut["A2"] = "Bob"

(***************************************************************************)
(* HostelFixer: C7, C8                                                     *)
(***************************************************************************)
Min(S) == CHOOSE x \in S : \A y \in S : x <= y

EdgeWeights(u, v) ==
    {graph[u][k][2] : k \in {n \in 1..Len(graph[u]) : graph[u][n][1] = v}}

\* the paths from a to b that visit no node twice
SimplePaths(a, b) ==
    {p \in UNION {[1..n -> Nodes] : n \in 1..Cardinality(Nodes)} :
        /\ p[1] = a
        /\ p[Len(p)] = b
        /\ \A i, j \in 1..Len(p) : i # j => p[i] # p[j]
        /\ \A k \in 1..(Len(p) - 1) : EdgeWeights(p[k], p[k + 1]) # {}}

RECURSIVE PathCost(_)
PathCost(p) ==
    IF Len(p) <= 1 THEN 0
    ELSE Min(EdgeWeights(p[1], p[2])) + PathCost(Tail(p))

\* the least total weight of a path from a to b; Inf when there is none
MinDist(a, b) ==
    IF SimplePaths(a, b) = {} THEN Inf
    ELSE Min({PathCost(p) : p \in SimplePaths(a, b)})

RECURSIVE SumLen(_)
SumLen(S) ==
    IF S = {} THEN 0
    ELSE LET u == CHOOSE x \in S : TRUE IN Len(graph[u]) + SumLen(S \ {u})

FixerReturned == fixerPc = "idle" /\ pushed # <<>>

\* C7: for every graph with non-negative weights the relaxation loop ends
\* (it runs at most once per push, and pushes at most once per edge after
\* the first) and the reported distance is the least total weight of a path
\* from source to destination, infinity when there is none; the source's
\* distance is 0; on the seed graph Gate to Laundry is 3.
C7_ShortestPath ==
    /\ iters <= 1 + SumLen(DOMAIN graph)
    /\ fixerPc = "dijkstra" => dist[src] = 0
    /\ FixerReturned =>
          /\ pq = {}
          /\ dist[src] = 0
          /\ \A n \in Nodes : dist[n] = MinDist(src, n)
          /\ shortest = MinDist(src, dest)
    /\ FixerReturned /\ graph = SeedGraph => shortest = 3

C7_Witness ==
    /\ FixerReturned
    /\ graph = SeedGraph
    /\ shortest = 3
    /\ dist["Mess"] = 2
    /\ iters > 1

Occurrences(s, x) == Cardinality({k \in 1..Len(s) : s[k] = x})
SameTasks(s, t) ==
    \A x \in Range(s) \cup Range(t) : Occurrences(s, x) = Occurrences(t, x)

\* t put after every task of s whose urgency is not greater
RECURSIVE InsertStable(_, _)
InsertStable(s, t) ==
    IF s = <<>> THEN <<t>>
    ELSE IF s[Len(s)].urgency <= t.urgency THEN Append(s, t)
    ELSE Append(InsertStable(SubSeq(s, 1, Len(s) - 1), t), s[Len(s)])

RECURSIVE StableByUrgency(_)
StableByUrgency(s) ==
    IF s = <<>> THEN <<>>
    ELSE InsertStable(StableByUrgency(SubSeq(s, 1, Len(s) - 1)), s[Len(s)])

\* C8 as stated: the listing is every inserted task once, ascending by
\* urgency, tasks of equal urgency in the order they were inserted; listing
\* removes nothing.
C8_StableListing ==
    /\ listed = StableByUrgency(pushed)
    /\ SameTasks(tasks, pushed)

\* C8 as amended: the listing is every inserted task once, ascending by
\* urgency (equal urgencies in the heap's order, which need not be the
\* insertion order); listing removes nothing, so the tasks accumulate.
C8_SortedListing ==
    /\ SameTasks(listed, pushed)
    /\ \A i, j \in 1..Len(listed) : i < j => listed[i].urgency <= listed[j].urgency
    /\ SameTasks(tasks, pushed)
    /\ Len(tasks) = Len(pushed)

C8_Witness ==
    /\ Len(pushed) = 3
    /\ <<pushed[1].urgency, pushed[2].urgency, pushed[3].urgency>> = <<5, 1, 3>>
    /\ <<listed[1].urgency, listed[2].urgency, listed[3].urgency>> = <<1, 3, 5>>
    /\ Len(tasks) = 3

(***************************************************************************)
(* FoodFight: C9                                                           *)
(***************************************************************************)
\* C9: for a non-decreasing sequence of length N >= W, exactly N - W + 1
\* windows are reported, every reported count is W, and the reported
\* minimum queue is W.
C9_WindowCounts ==
    /\ \A k \in 1..Len(windowsOut) : windowsOut[k][3] = window
    /\ foodPc \in {"min", "done"} /\ Len(entryTimes) >= window =>
          Len(windowsOut) = Len(entryTimes) - window + 1
    /\ foodPc = "done" /\ Len(entryTimes) >= window => minQueue = window

C9_Witness ==
    /\ foodPc = "done"
    /\ entryTimes = SeedEntryTimes
    /\ window = SeedWindow
    /\ Len(windowsOut) = 6
    /\ minQueue = 2
    /\ bestTime = 1

====
